---- MODULE Spec2Model ----
(***************************************************************************)
(* HarmonyLink: the per-guild Player state machine (Player.ts) and the     *)
(* LavalinkV4 node driver: its track-decode request path, its REST request *)
(* path and its WebSocket connection.                                      *)
(*                                                                         *)
(* A Player method runs synchronously up to its first await on network     *)
(* I/O (a REST call of node.rest, the wait for a connectionUpdate signal). *)
(* Each such suspended call is a task in the bag `tasks`; it is resumed by *)
(* RestSettle / ConnectionUpdate with the outcome of the I/O.  Awaits on   *)
(* promises that are already settled (a skip() that returned at its guard) *)
(* are run together with the code around them.  "debug" emits and the      *)
(* telemetry fields (position, ping, timestamp, isConnected), which no     *)
(* branch of the Player reads, are left out.                               *)
(***************************************************************************)
EXTENDS Naturals, Sequences, FiniteSets, Bags, TLC

\* ------------------------------------------------------------------ bounds
\* pending tracks plus suspended calls of one Player
MaxPending == 2
\* strings in one decode request
MaxBatch == 3
\* WebSockets one driver creates
MaxSockets == 2

\* --------------------------------------------------------------- universes
NoTrack == "null"
\* response.tracks[i] beyond the end of the array, handed to queue.add()
Undefined == "undefined"
UserTracks == {"A", "B"}
\* tracks a loadTrack search can return to autoplay()
AutoTracks == {"R"}
Tracks == UserTracks \cup AutoTracks
\* Track.info.sourceName
sourceName(t) == IF t = "B" THEN "soundcloud" ELSE "youtube"
\* Track.track, the encoded payload sent to the node
encoded(t) == IF t \in Tracks THEN t ELSE NoTrack

LoopModes == {"NONE", "TRACK", "QUEUE"}
EndReasons == {"finished", "loadFailed", "stopped", "replaced", "cleanup"}
CloseCodes == {4006, 4009, 4015, 4014}
VoiceSignals == {"SESSION_READY", "SESSION_ID_MISSING", "SESSION_ENDPOINT_MISSING", "TIMEOUT"}
NoArg == "none"
\* arguments as they are recorded in `last` and in a task
Toggles == {"true", "false"}
bool(toggle) == toggle = "true"

VARIABLES
    state,          \* Player.state (PlayerConnectionState)
    voiceState,     \* Player.voiceState
    voiceChannelId, \* TRUE iff Player.voiceChannelId is a non-empty string
    isPlaying,
    isPaused,
    loop,
    isAutoplay,
    queue,          \* the pending sequence (Queue as Array)
    currentTrack,
    previousTrack,
    registered,     \* the Player is in manager.playerManager
    tasks,          \* bag of suspended calls
    emitted,        \* manager events emitted by the last step
    restLog,        \* REST calls issued by the last step
    packets,        \* voice packets sent to Discord by the last step
    last,           \* the last step: operation, argument, phase, outcome
    drvPc,          \* LavalinkV4.request: idle / remote (fetch pending) / done
    drvReq,         \* the decode request being served
    drvData,        \* request(): data
    drvFailed,      \* request(): failedTracks
    drvFetches,     \* bodies of the remote decode calls made for the request
    drvResult,      \* what request() returned
    isRegistered,   \* LavalinkV4.isRegistered: init(manager, node) was called
    userID,         \* TRUE iff manager.library.userID is set
    resume,         \* manager.options.resume
    sessionId,      \* LavalinkV4.sessionId
    wsClient,       \* LavalinkV4.wsClient: index into sockets, or NoSocket
    sockets,        \* the WebSockets the driver created, in order of creation
    nodeEmitted,    \* manager / node events emitted by the last driver step
    drvLast,        \* the last driver step: operation, argument, outcome
    reqPc,          \* LavalinkV4.request on another path: idle / fetch (pending) / done
    reqPath,        \* options.path of that request
    reqFetches,     \* HTTP calls made by the last driver step
    reqResponse,    \* the HTTP response that request received
    reqResult,      \* what that request returned or threw
    reconnectTries, \* NodeOption.reconnectTries
    currentAttempts,\* NodeOption.currentAttempts
    nodeDown,       \* the node session manager gave the node up
    closes          \* close events handled since the last open event

playerVars == <<state, voiceState, voiceChannelId, isPlaying, isPaused, loop, isAutoplay,
                queue, currentTrack, previousTrack, registered, tasks, emitted, restLog,
                packets, last>>
decodeVars == <<drvPc, drvReq, drvData, drvFailed, drvFetches, drvResult>>
connVars == <<isRegistered, userID, resume, sessionId, wsClient, sockets, nodeEmitted, drvLast>>
reqVars == <<reqPc, reqPath, reqFetches, reqResponse, reqResult>>
nodeVars == <<reconnectTries, currentAttempts, nodeDown, closes>>
driverVars == <<decodeVars, connVars, reqVars, nodeVars>>
vars == <<playerVars, driverVars>>

\* ------------------------------------------------------- player snapshots
\* The Player as a record, so that the synchronous part of one method can call
\* another (autoplay -> skip, TrackEndEvent -> play).
Cur ==
    [state |-> state, voiceState |-> voiceState, isPlaying |-> isPlaying,
     isPaused |-> isPaused, loop |-> loop, isAutoplay |-> isAutoplay, queue |-> queue,
     currentTrack |-> currentTrack, previousTrack |-> previousTrack,
     registered |-> registered, tasks |-> tasks, emitted |-> <<>>, restLog |-> <<>>,
     packets |-> <<>>, outcome |-> "resolved"]

Commit(s, op, arg, phase) ==
    /\ Len(s.queue) + BagCardinality(s.tasks) <= MaxPending
    /\ state' = s.state
    /\ voiceState' = s.voiceState
    /\ isPlaying' = s.isPlaying
    /\ isPaused' = s.isPaused
    /\ loop' = s.loop
    /\ isAutoplay' = s.isAutoplay
    /\ queue' = s.queue
    /\ currentTrack' = s.currentTrack
    /\ previousTrack' = s.previousTrack
    /\ registered' = s.registered
    /\ tasks' = s.tasks
    /\ emitted' = s.emitted
    /\ restLog' = s.restLog
    /\ packets' = s.packets
    /\ last' = [op |-> op, arg |-> arg, phase |-> phase, outcome |-> s.outcome,
                cur |-> IF op = "TrackEndEvent" THEN currentTrack ELSE NoTrack]
    /\ UNCHANGED voiceChannelId

Task(k, arg) == [k |-> k, arg |-> arg]
Suspend(s, t) == [s EXCEPT !.tasks = @ (+) SetToBag({t}), !.outcome = "pending"]
Emit(s, ev, track) == [s EXCEPT !.emitted = Append(@, <<ev, track>>)]
Rest(s, call) == [s EXCEPT !.restLog = Append(@, call)]
Reject(s) == [s EXCEPT !.outcome = "rejected"]

UpdateTrack(enc) == [call |-> "updatePlayer", encoded |-> enc]
UpdatePaused(toggle) == [call |-> "updatePlayer", paused |-> toggle]
DestroyPlayer == [call |-> "destroyPlayer"]
LoadTrack(source) == [call |-> "loadTrack", source |-> source]

JoinPacket == "join"
LeavePacket == "leave"
sendVoiceUpdate(s) == [s EXCEPT !.packets = Append(@, JoinPacket)]
sendLeave(s) == [s EXCEPT !.packets = Append(@, LeavePacket)]

\* ----------------------------------------------------------------- methods
\* play(): up to the await of node.rest.updatePlayer
play(s, k) ==
    IF Len(s.queue) = 0 THEN s
    ELSE LET next == IF Head(s.queue) = Undefined THEN NoTrack ELSE Head(s.queue)
             s1 == [s EXCEPT !.currentTrack = next, !.queue = Tail(@)]
         IN Suspend(Rest(s1, UpdateTrack(encoded(next))), Task(k, NoArg))

\* faulty variant of playDone: isPaused is not reset
playDone_keepsPaused(s) == [s EXCEPT !.isPlaying = TRUE]

\* play(): after the await
playDone(s) == [s EXCEPT !.isPlaying = TRUE, !.isPaused = FALSE]

\* skip(): up to the await of node.rest.updatePlayer
skip(s, k) ==
    IF Len(s.queue) = 0 THEN s
    ELSE LET s1 == [s EXCEPT !.isPlaying = FALSE, !.isPaused = TRUE]
         IN Suspend(Rest(s1, UpdateTrack(NoTrack)), Task(k, NoArg))

\* pause(toggle): up to the await
pause(s, toggle) == Suspend(Rest(s, UpdatePaused(toggle)), Task("pause", toggle))

\* pause(toggle): after the await
pauseDone(s, toggle) == [s EXCEPT !.isPaused = bool(toggle), !.isPlaying = ~bool(toggle)]

\* faulty variant of setLoopCycle: the TRACK case falls back to NONE
setLoopCycle_skipsQueue(mode) ==
    CASE mode = "NONE" -> "TRACK"
      [] mode = "TRACK" -> "NONE"
      [] mode = "QUEUE" -> "NONE"

\* setLoop() without argument: the switch over this.loop
setLoopCycle(mode) ==
    CASE mode = "NONE" -> "TRACK"
      [] mode = "TRACK" -> "QUEUE"
      [] mode = "QUEUE" -> "NONE"

setLoop(s, mode) ==
    IF mode # NoArg THEN [s EXCEPT !.loop = mode]
    ELSE [s EXCEPT !.loop = setLoopCycle(@)]

\* setAutoplay(toggle?): `if (toggle)` is false for undefined and for false
setAutoplay(s, toggle) ==
    IF toggle = "true" THEN [s EXCEPT !.isAutoplay = TRUE]
    ELSE [s EXCEPT !.isAutoplay = ~@]

\* Queue._cleanUp()
cleanUp(s) == [s EXCEPT !.queue = <<>>, !.currentTrack = NoTrack, !.previousTrack = NoTrack]

\* disconnect(): its skip() follows _cleanUp() and returns at its guard
disconnect(s) ==
    IF ~voiceChannelId THEN s
    ELSE LET s1 == skip(cleanUp(s), "skip")
         IN sendLeave([s1 EXCEPT !.state = "DISCONNECTED", !.voiceState = "DISCONNECTED"])

\* destroy(): up to the await of node.rest.destroyPlayer
destroy(s) == Suspend(Rest(disconnect(s), DestroyPlayer), Task("destroyPlayer", NoArg))

\* destroy(): after the await
destroyDone(s) ==
    [Emit(s, "playerDestroy", NoTrack) EXCEPT !.registered = FALSE]

\* connect(): up to the await of the connectionUpdate signal
connect(s) ==
    IF s.state = "CONNECTED" \/ ~voiceChannelId THEN s
    ELSE IF s.voiceState \in {"CONNECTING", "CONNECTED"} THEN s
    ELSE Suspend(sendVoiceUpdate([s EXCEPT !.voiceState = "CONNECTING"]),
                 Task("connectionUpdate", NoArg))

\* faulty variant of connectDone: the state is set after the try block, not in finally
connectDone_noFinally(s, signal) ==
    IF signal \in {"SESSION_ID_MISSING", "SESSION_ENDPOINT_MISSING", "TIMEOUT"}
    THEN Reject(s)
    ELSE [s EXCEPT !.voiceState = "CONNECTED", !.state = "CONNECTED"]

\* faulty variant of connectDone: the switch has no case for SESSION_ENDPOINT_MISSING
connectDone_endpointFallsThrough(s, signal) ==
    LET s1 == IF signal \in {"SESSION_ID_MISSING", "TIMEOUT"}
              THEN Reject(s)
              ELSE [s EXCEPT !.voiceState = "CONNECTED"]
    IN [s1 EXCEPT !.state = "CONNECTED"]

\* connect(): try / catch / finally after the await
connectDone(s, signal) ==
    LET s1 == IF signal \in {"SESSION_ID_MISSING", "SESSION_ENDPOINT_MISSING", "TIMEOUT"}
              THEN Reject(s)
              ELSE [s EXCEPT !.voiceState = "CONNECTED"]
    IN [s1 EXCEPT !.state = "CONNECTED"]

\* autoplay(previousTrack = null): up to the await of resolve() (loadTrack)
autoplay(s) ==
    LET prevTrack == s.previousTrack
    IN IF prevTrack = NoTrack THEN s
       ELSE Suspend(Rest(s, LoadTrack(IF sourceName(prevTrack) = "soundcloud"
                                      THEN "scsearch" ELSE "ytmsearch")),
                    Task("loadTrack", sourceName(prevTrack)))

\* Queue.add(track)
add(s, t) == [s EXCEPT !.queue = Append(@, t)]

\* autoplay(): after resolve() returned `resp`; `i` is the random index drawn
autoplayLoaded(s, source, resp, i) ==
    IF Len(resp.tracks) = 0 \/ resp.loadType \in {"error", "empty"}
    THEN skip(s, "autoSkip")
    ELSE IF source = "soundcloud"
         THEN play(add(s, resp.tracks[i + 1]), "autoPlay")
         ELSE LET rest == Tail(resp.tracks)
                  track == IF i + 1 \in DOMAIN rest THEN rest[i + 1] ELSE Undefined
              IN play(add(s, track), "autoPlay")

\* the indices Math.floor(Math.random() * n) can draw
RandomIndex(n) == IF n = 0 THEN {0} ELSE 0 .. (n - 1)

\* ----------------------------------------------------------- event handler
\* faulty variant of requeueFront: push instead of unshift
requeueFront_pushes(s) == [s EXCEPT !.queue = Append(@, s.previousTrack)]

\* faulty variant of requeueBack: unshift instead of push
requeueBack_unshifts(s) == [s EXCEPT !.queue = <<s.previousTrack>> \o @]

\* faulty variant of advanceNone: the empty-queue check is missing
advanceNone_noEmptyCheck(s) == play(Emit(s, "trackEnd", s.previousTrack), "play")

\* this.queue.unshift(this.queue.previousTrack)
requeueFront(s) == [s EXCEPT !.queue = <<s.previousTrack>> \o @]

\* this.queue.push(this.queue.previousTrack)
requeueBack(s) == [s EXCEPT !.queue = Append(@, s.previousTrack)]

\* faulty variant of advanceDirect: the ended track is put back behind the pending ones
advanceDirect_requeues(s) ==
    IF Len(s.queue) = 0 THEN Emit(s, "queueEmpty", NoTrack)
    ELSE play(requeueBack(Emit(s, "trackEnd", s.previousTrack)), "play")

\* TrackEndEvent, reason loadFailed or cleanup
advanceDirect(s) ==
    IF Len(s.queue) = 0 THEN Emit(s, "queueEmpty", NoTrack)
    ELSE play(Emit(s, "trackEnd", s.previousTrack), "play")

\* TrackEndEvent, loop NONE without autoplay
advanceNone(s) ==
    IF Len(s.queue) = 0 THEN Emit(s, "queueEmpty", NoTrack)
    ELSE play(Emit(s, "trackEnd", s.previousTrack), "play")

\* TrackEndEvent: the loop switch (reason is none of replaced/loadFailed/cleanup)
loopRequeue(s) ==
    CASE s.loop = "TRACK" ->
           IF s.previousTrack = NoTrack THEN Emit(s, "queueEmpty", NoTrack)
           ELSE play(requeueFront(Emit(s, "trackEnd", s.previousTrack)), "play")
      [] s.loop = "QUEUE" ->
           IF s.previousTrack = NoTrack THEN Emit(s, "queueEmpty", NoTrack)
           ELSE play(requeueBack(Emit(s, "trackEnd", s.previousTrack)), "play")
      [] s.loop = "NONE" ->
           IF s.isAutoplay THEN autoplay(s) ELSE advanceNone(s)

trackEnd(s, reason) ==
    LET s1 == [s EXCEPT !.isPlaying = FALSE, !.isPaused = TRUE,
                        !.previousTrack = IF s.currentTrack # NoTrack THEN s.currentTrack ELSE @,
                        !.currentTrack = NoTrack]
    IN IF reason = "replaced" THEN Emit(s1, "trackEnd", NoTrack)
       ELSE IF reason \in {"loadFailed", "cleanup"} THEN advanceDirect(s1)
       ELSE loopRequeue(s1)

trackStart(s) ==
    Emit([s EXCEPT !.isPlaying = TRUE, !.isPaused = FALSE], "trackStart", s.currentTrack)

trackStuck(s) == skip(Emit(s, "trackError", s.currentTrack), "skip")

trackException(s) == skip(Emit(s, "trackError", s.previousTrack), "skip")

\* faulty variant of webSocketClosed: 4006 is not among the codes that rejoin
webSocketClosed_no4006(s, code) ==
    LET s1 == IF code \in {4015, 4009} THEN sendVoiceUpdate(s) ELSE s
    IN pause(Emit(s1, "socketClose", s.currentTrack), "true")

webSocketClosed(s, code) ==
    LET s1 == IF code \in {4015, 4009, 4006} THEN sendVoiceUpdate(s) ELSE s
    IN pause(Emit(s1, "socketClose", s.currentTrack), "true")

\* ------------------------------------------------- resuming a suspended call
\* the continuation of task t once its REST call settled (ok) or threw (~ok)
restSettled(s, t, ok) ==
    CASE t.k = "play" -> IF ok THEN playDone(s) ELSE Reject(s)
      [] t.k = "autoPlay" -> IF ok THEN playDone(s) ELSE skip(s, "catchSkip")
      [] t.k = "skip" -> IF ok THEN s ELSE Reject(s)
      [] t.k = "autoSkip" -> IF ok THEN s ELSE skip(s, "catchSkip")
      [] t.k = "catchSkip" -> IF ok THEN s ELSE Reject(s)
      [] t.k = "pause" -> IF ok THEN pauseDone(s, t.arg) ELSE Reject(s)
      [] t.k = "destroyPlayer" -> IF ok THEN destroyDone(s) ELSE Reject(s)

RestKinds == {"play", "autoPlay", "skip", "autoSkip", "catchSkip", "pause", "destroyPlayer"}

Without(s, t) == [s EXCEPT !.tasks = @ (-) SetToBag({t})]

\* ------------------------------------------------------------------ actions
PlayerInit ==
    /\ state = "DESTROYED"
    /\ voiceState = "DISCONNECTED"
    /\ voiceChannelId \in BOOLEAN
    /\ isPlaying = FALSE
    /\ isPaused = FALSE
    /\ loop = "NONE"
    /\ isAutoplay = FALSE
    /\ queue = <<>>
    /\ currentTrack = NoTrack
    /\ previousTrack = NoTrack
    /\ registered = TRUE
    /\ tasks = EmptyBag
    /\ emitted = <<<<"playerCreate", NoTrack>>>>
    /\ restLog = <<>>
    /\ packets = <<>>
    /\ last = [op |-> "constructor", arg |-> NoArg, phase |-> "call", outcome |-> "resolved",
               cur |-> NoTrack]

DecodeIdle ==
    /\ drvPc = "idle"
    /\ drvReq = [path |-> "none", hasBody |-> FALSE, body |-> <<>>, encodedTrack |-> "null"]
    /\ drvData = <<>>
    /\ drvFailed = <<>>
    /\ drvFetches = <<>>
    /\ drvResult = [status |-> "none", value |-> <<>>]

NoSocket == 0
NoSession == "null"
NoHeader == "absent"
DrvStep(op, arg, outcome) == [op |-> op, arg |-> arg, outcome |-> outcome]

\* a driver as constructed: not initialised, no session, no socket
ConnIdle ==
    /\ isRegistered = FALSE
    /\ userID = FALSE
    /\ resume = FALSE
    /\ sessionId = NoSession
    /\ wsClient = NoSocket
    /\ sockets = <<>>
    /\ nodeEmitted = <<>>
    /\ drvLast = DrvStep("constructor", NoArg, "returned")

NoResponse == [status |-> 0, contentType |-> "none", body |-> "none"]

\* a driver after init(manager, node)
ConnRegistered ==
    /\ isRegistered = TRUE
    /\ userID = TRUE
    /\ resume = FALSE
    /\ sessionId = NoSession
    /\ wsClient = NoSocket
    /\ sockets = <<>>
    /\ nodeEmitted = <<>>
    /\ drvLast = DrvStep("init", NoArg, "returned")

\* no request made yet
ReqIdle ==
    /\ reqPc = "idle"
    /\ reqPath = "none"
    /\ reqFetches = <<>>
    /\ reqResponse = NoResponse
    /\ reqResult = [status |-> "none", value |-> "none"]

\* the node's reconnect bookkeeping before any connection
NodeIdle ==
    /\ reconnectTries = 1
    /\ currentAttempts = 0
    /\ nodeDown = FALSE
    /\ closes = 0

DriverIdle == DecodeIdle /\ ConnIdle /\ ReqIdle /\ NodeIdle

\* a Player created for a voice channel (the join request of the host application)
Init == PlayerInit /\ voiceChannelId /\ DriverIdle

\* a Player created with or without a voice channel id
InitLifecycle == PlayerInit /\ DriverIdle

Connect == Commit(connect(Cur), "connect", NoArg, "call") /\ UNCHANGED driverVars

SetLoop ==
    \E mode \in LoopModes \cup {NoArg} :
        Commit(setLoop(Cur, mode), "setLoop", mode, "call") /\ UNCHANGED driverVars

SetAutoplay ==
    \E toggle \in Toggles \cup {NoArg} :
        Commit(setAutoplay(Cur, toggle), "setAutoplay", toggle, "call") /\ UNCHANGED driverVars

QueueAdd ==
    \E t \in UserTracks :
        Commit(add(Cur, t), "add", t, "call") /\ UNCHANGED driverVars

Play == Commit(play(Cur, "play"), "play", NoArg, "call") /\ UNCHANGED driverVars

Skip == Commit(skip(Cur, "skip"), "skip", NoArg, "call") /\ UNCHANGED driverVars

Pause ==
    \E toggle \in Toggles :
        Commit(pause(Cur, toggle), "pause", toggle, "call") /\ UNCHANGED driverVars

Destroy == Commit(destroy(Cur), "destroy", NoArg, "call") /\ UNCHANGED driverVars

TrackStartEvent == Commit(trackStart(Cur), "TrackStartEvent", NoArg, "call") /\ UNCHANGED driverVars

TrackEndEvent ==
    \E reason \in EndReasons :
        Commit(trackEnd(Cur, reason), "TrackEndEvent", reason, "call") /\ UNCHANGED driverVars

TrackStuckEvent == Commit(trackStuck(Cur), "TrackStuckEvent", NoArg, "call") /\ UNCHANGED driverVars

TrackExceptionEvent ==
    Commit(trackException(Cur), "TrackExceptionEvent", NoArg, "call") /\ UNCHANGED driverVars

WebSocketClosedEvent ==
    \E code \in CloseCodes :
        Commit(webSocketClosed(Cur, code), "WebSocketClosedEvent", ToString(code), "call")
        /\ UNCHANGED driverVars

\* a pending REST call of node.rest settles or throws
RestSettle ==
    \E t \in BagToSet(tasks), ok \in BOOLEAN :
        /\ t.k \in RestKinds
        /\ Commit(restSettled(Without(Cur, t), t, ok), t.k, IF ok THEN "ok" ELSE "threw", "resume")
        /\ UNCHANGED driverVars

\* the loadTrack call of autoplay()'s resolve() throws, or returns a response whose
\* tracks are among `found`
LoadSettleFrom(found) ==
    \E t \in BagToSet(tasks) :
        /\ t.k = "loadTrack"
        /\ \/ Commit(skip(Without(Cur, t), "catchSkip"), "loadTrack", "threw", "resume")
           \/ \E n \in 0 .. 2, loadType \in {"search", "empty"} :
                \E tracks \in [1 .. n -> found] :
                    LET resp == [tracks |-> tracks, loadType |-> loadType]
                        len == IF t.arg = "soundcloud" THEN n ELSE IF n = 0 THEN 0 ELSE n - 1
                    IN \E i \in RandomIndex(len) :
                         Commit(autoplayLoaded(Without(Cur, t), t.arg, resp, i),
                                "loadTrack", "ok", "resume")
        /\ UNCHANGED driverVars

\* the search may return any of the tracks autoplay can find
LoadSettle == LoadSettleFrom(AutoTracks)

\* the tracks the Player holds: pending, current or previous
Held == {queue[i] : i \in DOMAIN queue} \cup {currentTrack, previousTrack}

\* the host application enqueues a track the Player does not hold
QueueAddDistinct ==
    \E t \in UserTracks \ Held :
        Commit(add(Cur, t), "add", t, "call") /\ UNCHANGED driverVars

\* the search returns tracks the Player does not hold
LoadSettleDistinct == LoadSettleFrom(AutoTracks \ Held)

\* the ConnectionHandler emits connectionUpdate, or the timeout aborts the wait
ConnectionUpdate ==
    \E t \in BagToSet(tasks), signal \in VoiceSignals :
        /\ t.k = "connectionUpdate"
        /\ Commit(connectDone(Without(Cur, t), signal), "connectionUpdate", signal, "resume")
        /\ UNCHANGED driverVars

\* ------------------------------------------------ LavalinkV4.request (decode)
EncodedStrings == {"ok1", "ok2", "bad1", "bad2"}
\* the strings the local Decoder cannot decode (getTrack is null or undefined)
Malformed == {"bad1", "bad2"}
NoData == [encoded |-> "null", by |-> "nobody"]

\* AbstractNodeDriver.decoder
decoder(track) == IF track \in Malformed THEN NoData ELSE [encoded |-> track, by |-> "local"]

\* JSON.stringify / JSON.parse of the request body
stringify(value) == [json |-> value]
parse(text) == text.json

\* the callback of the .map over the parsed body, and the single-track branch
decodeOne(acc, track) ==
    IF decoder(track) # NoData
    THEN [acc EXCEPT !.data = Append(@, decoder(track))]
    ELSE [acc EXCEPT !.failedTracks = Append(@, track)]

RECURSIVE decodeAll(_, _)
decodeAll(acc, body) ==
    IF body = <<>> THEN acc ELSE decodeAll(decodeOne(acc, Head(body)), Tail(body))

\* request(): local decoding of a /decodetrack(s) request
decodeLocal(req) ==
    LET acc == [data |-> <<>>, failedTracks |-> <<>>]
    IN IF req.hasBody THEN decodeAll(acc, parse(stringify(req.body)))
       ELSE decodeOne(acc, req.encodedTrack)

\* request(): what is returned when no track failed
decodeReturn(data) == [status |-> "returned", value |-> data]

\* request(): `return await res.json()` of the remote decode call
remoteReturn(data, answer) == [status |-> "returned", value |-> answer]

Bodies == UNION {[1 .. n -> EncodedStrings] : n \in 0 .. MaxBatch}

DecodeRequests ==
    {[path |-> "/decodetracks", hasBody |-> TRUE, body |-> b, encodedTrack |-> "null"] :
        b \in Bodies}
    \cup {[path |-> "/decodetrack", hasBody |-> FALSE, body |-> <<>>, encodedTrack |-> e] :
        e \in EncodedStrings}

NoResult == [status |-> "none", value |-> <<>>]

\* request() on a decode path, up to its return or to the await of the remote fetch
DecodeRequest ==
    \E req \in DecodeRequests :
        LET acc == decodeLocal(req)
        IN /\ isRegistered
           /\ drvPc \in {"idle", "done"}
           /\ drvReq' = req
           /\ drvData' = acc.data
           /\ drvFailed' = acc.failedTracks
           /\ IF Len(acc.failedTracks) > 0
              THEN /\ drvFetches' = <<stringify(acc.failedTracks)>>
                   /\ drvResult' = NoResult
                   /\ drvPc' = "remote"
              ELSE /\ drvFetches' = <<>>
                   /\ drvResult' = decodeReturn(acc.data)
                   /\ drvPc' = "done"
           /\ UNCHANGED <<playerVars, connVars, reqVars, nodeVars>>

\* what the node answers to POST /v4/decodetracks
remoteDecoded(body) == [i \in 1 .. Len(body) |-> [encoded |-> body[i], by |-> "remote"]]

\* the remote decode call returns the node's answer, or fetch / res.json() throws
RemoteDecodeSettle ==
    /\ drvPc = "remote"
    /\ \/ drvResult' = remoteReturn(drvData, remoteDecoded(parse(drvFetches[1])))
       \/ drvResult' = remoteReturn(drvData, <<>>)
       \/ drvResult' = [status |-> "threw", value |-> <<>>]
    /\ drvPc' = "done"
    /\ UNCHANGED <<drvReq, drvData, drvFailed, drvFetches, playerVars, connVars, reqVars,
                   nodeVars>>

\* ------------------------------------------------ LavalinkV4: the connection
SessionIds == {"S1", "S2"}

\* faulty variant of sessionHeader: the resume option is not consulted
sessionHeader_ignoresResume(shouldResume, sid) ==
    IF sid # NoSession THEN sid ELSE NoHeader

\* connect(): the Session-Id entry of the handshake headers
sessionHeader(shouldResume, sid) ==
    IF shouldResume /\ sid # NoSession THEN sid ELSE NoHeader

\* new WebSocket(url, { headers }) with the open/message/error/close handlers attached
newSocket(header) ==
    [closed |-> FALSE, listeners |-> TRUE, sessionHeader |-> header,
     opened |-> FALSE, session |-> NoSession]

\* wsClose(): what becomes of the socket held in wsClient
wsCloseSocket(ws, withoutEmit) ==
    [ws EXCEPT !.closed = IF withoutEmit THEN TRUE ELSE @, !.listeners = FALSE]

\* wsClose(): this.manager?.emit("nodeDisconnect", this.node)
wsCloseEmits(withoutEmit) ==
    IF withoutEmit /\ isRegistered THEN <<"nodeDisconnect">> ELSE <<>>

\* a driver with the configuration of its manager (library user id, resume option)
ConnInit ==
    /\ isRegistered = FALSE
    /\ userID \in BOOLEAN
    /\ resume \in BOOLEAN
    /\ sessionId = NoSession
    /\ wsClient = NoSocket
    /\ sockets = <<>>
    /\ nodeEmitted = <<>>
    /\ drvLast = DrvStep("constructor", NoArg, "returned")

\* init(manager, node)
DrvInit ==
    /\ isRegistered' = TRUE
    /\ nodeEmitted' = <<>>
    /\ drvLast' = DrvStep("init", NoArg, "returned")
    /\ UNCHANGED <<userID, resume, sessionId, wsClient, sockets>>

\* connect()
DrvConnect ==
    /\ Len(sockets) < MaxSockets
    /\ nodeEmitted' = <<>>
    /\ IF ~isRegistered \/ ~userID
       THEN /\ drvLast' = DrvStep("connect", NoArg, "rejected")
            /\ UNCHANGED <<wsClient, sockets>>
       ELSE /\ sockets' = Append(sockets, newSocket(sessionHeader(resume, sessionId)))
            /\ wsClient' = Len(sockets) + 1
            /\ drvLast' = DrvStep("connect", NoArg, "returned")
    /\ UNCHANGED <<isRegistered, userID, resume, sessionId>>

\* wsClose(withoutEmit = false)
WsClose ==
    \E withoutEmit \in Toggles :
        /\ sockets' = IF wsClient = NoSocket THEN sockets
                      ELSE [sockets EXCEPT ![wsClient] = wsCloseSocket(@, bool(withoutEmit))]
        /\ nodeEmitted' = wsCloseEmits(bool(withoutEmit))
        /\ wsClient' = NoSocket
        /\ drvLast' = DrvStep("wsClose", withoutEmit, "returned")
        /\ UNCHANGED <<isRegistered, userID, resume, sessionId>>

\* a frame arrives on a socket of the driver: eventHandler hands it to the node, and
\* on a ready packet the node session manager stores the session identifier
NodeReady ==
    \E i \in DOMAIN sockets, sid \in SessionIds :
        /\ ~sockets[i].closed /\ sockets[i].listeners
        /\ sessionId' = sid
        /\ sockets' = [sockets EXCEPT ![i].session = sid]
        /\ nodeEmitted' = <<"lavalinkEvent">>
        /\ drvLast' = DrvStep("ready", sid, "returned")
        /\ UNCHANGED <<isRegistered, userID, resume, wsClient>>

\* ------------------------------------------------------ node session manager
\* the values of reconnectTries tried
RetryChoices == {1, 2}

\* faulty variant of shouldReconnect: the last attempt is never made
shouldReconnect_oneLess(attempts, tries) == attempts + 1 < tries

\* reconnect policy: another attempt while currentAttempts < reconnectTries
shouldReconnect(attempts, tries) == attempts < tries

\* the open event of a socket: openHandler hands it to the node, which resets the
\* attempt counter
SocketOpen ==
    \E i \in DOMAIN sockets :
        /\ ~sockets[i].closed /\ sockets[i].listeners /\ ~sockets[i].opened
        /\ sockets' = [sockets EXCEPT ![i].opened = TRUE]
        /\ currentAttempts' = 0
        /\ closes' = 0
        /\ nodeEmitted' = <<"lavalinkWSOpen">>
        /\ drvLast' = DrvStep("open", NoArg, "returned")
        /\ UNCHANGED <<isRegistered, userID, resume, sessionId, wsClient, reconnectTries,
                       nodeDown>>

\* the close event of a socket: closeHandler hands it to the node, which connects again
\* while attempts are left and gives the node up when they are exhausted
SocketClose ==
    \E i \in DOMAIN sockets :
        /\ ~sockets[i].closed /\ sockets[i].listeners
        /\ closes' = closes + 1
        /\ IF nodeDown
           THEN /\ sockets' = [sockets EXCEPT ![i].closed = TRUE]
                /\ nodeEmitted' = <<"lavalinkWSClose">>
                /\ drvLast' = DrvStep("close", NoArg, "ignored")
                /\ UNCHANGED <<wsClient, currentAttempts, nodeDown>>
           ELSE IF shouldReconnect(currentAttempts, reconnectTries)
           THEN /\ Len(sockets) < MaxSockets
                /\ currentAttempts' = currentAttempts + 1
                /\ sockets' = Append([sockets EXCEPT ![i].closed = TRUE],
                                     newSocket(sessionHeader(resume, sessionId)))
                /\ wsClient' = Len(sockets) + 1
                /\ nodeEmitted' = <<"lavalinkWSClose">>
                /\ drvLast' = DrvStep("close", NoArg, "reconnect")
                /\ UNCHANGED nodeDown
           ELSE /\ nodeDown' = TRUE
                /\ sockets' = [sockets EXCEPT ![i].closed = TRUE]
                /\ nodeEmitted' = <<"lavalinkWSClose", "nodeDown">>
                /\ drvLast' = DrvStep("close", NoArg, "nodeDown")
                /\ UNCHANGED <<wsClient, currentAttempts>>
        /\ UNCHANGED <<isRegistered, userID, resume, sessionId, reconnectTries>>

\* ------------------------------------------------- LavalinkV4.request (REST)
Paths == {"/version", "/info", "/loadtracks", "/sessions/S1", "/sessions/S2",
          "/sessions/S1/players/G"}

\* options.path split at "/"
segments(path) ==
    CASE path = "/version" -> <<"version">>
      [] path = "/info" -> <<"info">>
      [] path = "/loadtracks" -> <<"loadtracks">>
      [] path = "/sessions/S1" -> <<"sessions", "S1">>
      [] path = "/sessions/S2" -> <<"sessions", "S2">>
      [] path = "/sessions/S1/players/G" -> <<"sessions", "S1", "players", "G">>
      [] OTHER -> <<>>

\* options.path.includes("/" + part), options.path.startsWith("/" + part)
includes(path, part) == \E i \in DOMAIN segments(path) : segments(path)[i] = part
startsWith(path, part) == segments(path) # <<>> /\ segments(path)[1] = part

\* updateSessions(): `/sessions/${sessionId}`
sessionPath(sid) == IF sid = "S1" THEN "/sessions/S1" ELSE "/sessions/S2"

Statuses == {200, 204, 400, 404, 500}
ContentTypes == {"application/json", "text/plain"}
\* response bodies: a JSON text, and one that is not JSON
RawBodies == {"{}", "oops"}
Returned(value) == [status |-> "returned", value |-> value]
Threw(error) == [status |-> "threw", value |-> error]

\* res.json() and res.text()
json(raw) == IF raw = "{}" THEN Returned("object") ELSE Threw("SyntaxError")
text(raw) == Returned(raw)

\* content-type === "application/json" ? res.json() : res.text()
negotiate(contentType, raw) ==
    IF contentType = "application/json" THEN json(raw) ELSE text(raw)

\* faulty variant of statusResult: an error status throws
statusResult_throwsOnError(status, contentType, raw) ==
    CASE status = 204 -> Returned("undefined")
      [] status = 200 -> negotiate(contentType, raw)
      [] OTHER -> Threw("HTTPError")

\* request(): the switch over res.status
statusResult(status, contentType, raw) ==
    CASE status = 204 -> Returned("undefined")
      [] status = 200 -> negotiate(contentType, raw)
      [] OTHER -> Returned("undefined")

\* faulty variant of requestGuard: the session check is missing
requestGuard_noSessionCheck(path) ==
    IF ~isRegistered THEN "NotRegistered" ELSE "pass"

\* request(): the two guards before any HTTP call
requestGuard(path) ==
    IF ~isRegistered THEN "NotRegistered"
    ELSE IF includes(path, "sessions") /\ sessionId = NoSession THEN "SessionNotReady"
    ELSE "pass"

\* request(options), called as `op`, up to its throw or to the await of fetch
RequestPath(path, op) ==
    /\ reqPc \in {"idle", "done"}
    /\ reqPath' = path
    /\ reqResponse' = NoResponse
    /\ nodeEmitted' = <<>>
    /\ IF requestGuard(path) # "pass"
       THEN /\ reqPc' = "done"
            /\ reqFetches' = <<>>
            /\ reqResult' = Threw(requestGuard(path))
            /\ drvLast' = DrvStep(op, path, "threw")
       ELSE /\ reqPc' = "fetch"
            /\ reqFetches' = <<path>>
            /\ reqResult' = [status |-> "none", value |-> "none"]
            /\ drvLast' = DrvStep(op, path, "pending")
    /\ UNCHANGED <<isRegistered, userID, resume, sessionId, wsClient, sockets>>

Request == \E path \in Paths : RequestPath(path, "request")

\* updateSessions(sessionId, mode, timeout)
UpdateSessions == \E sid \in SessionIds : RequestPath(sessionPath(sid), "updateSessions")

\* the fetch of a pending request throws, or returns a response
FetchSettle ==
    /\ reqPc = "fetch"
    /\ \/ /\ reqResponse' = NoResponse
          /\ reqResult' = Threw("FetchError")
       \/ \E status \in Statuses, contentType \in ContentTypes, raw \in RawBodies :
            /\ reqResponse' = [status |-> status, contentType |-> contentType, body |-> raw]
            /\ reqResult' = IF startsWith(reqPath, "version")
                            THEN negotiate(contentType, raw)
                            ELSE statusResult(status, contentType, raw)
    /\ reqPc' = "done"
    /\ reqFetches' = <<>>
    /\ nodeEmitted' = <<>>
    /\ drvLast' = DrvStep(drvLast.op, drvLast.arg, "settled")
    /\ UNCHANGED <<reqPath, isRegistered, userID, resume, sessionId, wsClient, sockets>>

\* playback: the commands, the node's events and the settling of their REST calls
Next ==
    \/ SetLoop
    \/ SetAutoplay
    \/ QueueAdd
    \/ Play
    \/ Skip
    \/ Pause
    \/ TrackStartEvent
    \/ TrackEndEvent
    \/ TrackStuckEvent
    \/ TrackExceptionEvent
    \/ WebSocketClosedEvent
    \/ RestSettle
    \/ LoadSettle

Spec == Init /\ [][Next]_vars

\* playback in which no track is enqueued while the Player still holds it
NextDistinct ==
    \/ SetLoop
    \/ SetAutoplay
    \/ QueueAddDistinct
    \/ Play
    \/ Skip
    \/ Pause
    \/ TrackStartEvent
    \/ TrackEndEvent
    \/ TrackStuckEvent
    \/ TrackExceptionEvent
    \/ WebSocketClosedEvent
    \/ RestSettle
    \/ LoadSettleDistinct

SpecDistinct == Init /\ [][NextDistinct]_vars

\* connection lifecycle: connect() and destroy() among the commands and events
NextLifecycle ==
    \/ Connect
    \/ ConnectionUpdate
    \/ Destroy
    \/ QueueAdd
    \/ Play
    \/ Skip
    \/ Pause
    \/ TrackStartEvent
    \/ TrackEndEvent
    \/ TrackStuckEvent
    \/ TrackExceptionEvent
    \/ WebSocketClosedEvent
    \/ RestSettle

SpecLifecycle == InitLifecycle /\ [][NextLifecycle]_vars

NextDecode == DecodeRequest \/ RemoteDecodeSettle

InitDecode ==
    PlayerInit /\ voiceChannelId /\ DecodeIdle /\ ConnRegistered /\ ReqIdle /\ NodeIdle

SpecDecode == InitDecode /\ [][NextDecode]_vars

\* the node connection: init, connect, wsClose and what arrives on the socket
NextNode ==
    \/ DrvInit /\ UNCHANGED <<playerVars, decodeVars, reqVars, nodeVars>>
    \/ DrvConnect /\ UNCHANGED <<playerVars, decodeVars, reqVars, nodeVars>>
    \/ WsClose /\ UNCHANGED <<playerVars, decodeVars, reqVars, nodeVars>>
    \/ NodeReady /\ UNCHANGED <<playerVars, decodeVars, reqVars, nodeVars>>
    \/ SocketOpen /\ UNCHANGED <<playerVars, decodeVars, reqVars>>
    \/ SocketClose /\ UNCHANGED <<playerVars, decodeVars, reqVars>>

\* a driver as constructed, with the node's reconnect policy
InitNode ==
    /\ PlayerInit /\ voiceChannelId /\ DecodeIdle /\ ConnInit /\ ReqIdle
    /\ reconnectTries \in RetryChoices
    /\ currentAttempts = 0
    /\ nodeDown = FALSE
    /\ closes = 0

SpecNode == InitNode /\ [][NextNode]_vars

\* REST requests of a driver that is initialised, connected and made ready meanwhile
NextRequest ==
    \/ DrvInit /\ UNCHANGED <<playerVars, decodeVars, reqVars, nodeVars>>
    \/ DrvConnect /\ UNCHANGED <<playerVars, decodeVars, reqVars, nodeVars>>
    \/ NodeReady /\ UNCHANGED <<playerVars, decodeVars, reqVars, nodeVars>>
    \/ Request /\ UNCHANGED <<playerVars, decodeVars, nodeVars>>
    \/ UpdateSessions /\ UNCHANGED <<playerVars, decodeVars, nodeVars>>
    \/ FetchSettle /\ UNCHANGED <<playerVars, decodeVars, nodeVars>>

InitRequest == PlayerInit /\ voiceChannelId /\ DecodeIdle /\ ConnInit /\ ReqIdle /\ NodeIdle

SpecRequest == InitRequest /\ [][NextRequest]_vars

\* ------------------------------------------------------------------- claims
Range(f) == {f[i] : i \in DOMAIN f}
Emitted(ev) == \E i \in DOMAIN emitted : emitted[i][1] = ev
NormalEnd == EndReasons \ {"replaced", "loadFailed", "cleanup"}

\* C1: isPlaying and isPaused are never both true, in any state reached by
\* interleaving the commands, the node events and the settling of pending REST calls.
C1_NeverPlayingAndPaused == ~(isPlaying /\ isPaused)

\* C1 witness: a node event was handled while the REST call of a command is pending
C1_Witness ==
    /\ last.op = "TrackStartEvent"
    /\ \E t \in BagToSet(tasks) : t.k \in {"skip", "pause"}
    /\ isPlaying /\ ~isPaused

\* C2: destroy() on a Player whose state is DESTROYED fails and issues no REST call.
C2_DestroyOnDestroyedFails ==
    [][(state = "DESTROYED" /\ last'.op = "destroy" /\ last'.phase = "call")
        => (last'.outcome = "rejected" /\ restLog' = <<>>)]_vars

\* C3: after destroy() has completed, connect / play / pause / skip fail, issue no
\* REST call, send no voice packet and leave the Player's state and queue unchanged.
C3_CommandsAfterDestroyFail ==
    [][(~registered /\ last'.phase = "call" /\ last'.op \in {"connect", "play", "pause", "skip"})
        => /\ last'.outcome = "rejected"
           /\ restLog' = <<>>
           /\ packets' = <<>>
           /\ UNCHANGED <<state, voiceState, isPlaying, isPaused, loop, isAutoplay, queue,
                          currentTrack, previousTrack>>]_vars

\* C4: DESTROYED is terminal and entered only by destroy(): no step leaves it, and a
\* step that enters it is a step of destroy().
C4_DestroyedTerminal ==
    [][/\ state = "DESTROYED" => state' = "DESTROYED"
       /\ (state # "DESTROYED" /\ state' = "DESTROYED")
            => last'.op \in {"destroy", "destroyPlayer"}]_vars

\* C5: loop TRACK, a current track and any pending sequence: handling TrackEndEvent
\* (finished) re-inserts the ended track at the front and replays it: an update-player
\* call for it is issued, it is currentTrack again and the pending sequence is as before.
C5_LoopTrackReplays ==
    [][(last'.op = "TrackEndEvent" /\ last'.arg = "finished" /\ loop = "TRACK"
        /\ currentTrack # NoTrack)
        => /\ currentTrack' = currentTrack
           /\ previousTrack' = currentTrack
           /\ queue' = queue
           /\ restLog' = <<UpdateTrack(encoded(currentTrack))>>]_vars

\* C5 witness: A was current with B pending, the event was handled, A is replayed
C5_Witness ==
    /\ last.op = "TrackEndEvent" /\ last.arg = "finished" /\ last.cur = "A"
    /\ loop = "TRACK"
    /\ currentTrack = "A"
    /\ queue = <<"B">>
    /\ restLog = <<UpdateTrack("A")>>

\* C6: loop QUEUE, a current track and a non-empty pending sequence: handling a
\* TrackEndEvent whose reason is none of replaced/loadFailed/cleanup appends the ended
\* track at the back and plays the head; and under loop QUEUE such an event loses no
\* track of the rotation (current track and pending sequence).
C6_LoopQueueRotates ==
    [][(last'.op = "TrackEndEvent" /\ last'.arg \in NormalEnd /\ loop = "QUEUE")
        => /\ (currentTrack # NoTrack /\ queue # <<>> /\ Head(queue) \in Tracks)
                => /\ currentTrack' = Head(queue)
                   /\ queue' = Append(Tail(queue), currentTrack)
                   /\ restLog' = <<UpdateTrack(encoded(Head(queue)))>>
           /\ ((Range(queue) \cup {currentTrack}) \cap Tracks)
                \subseteq (Range(queue') \cup {currentTrack'})]_vars

\* C6 witness: A was current with B pending, the event was handled, B plays, A is behind
C6_Witness ==
    /\ last.op = "TrackEndEvent" /\ last.arg \in NormalEnd /\ last.cur = "A"
    /\ loop = "QUEUE"
    /\ currentTrack = "B"
    /\ queue = <<"A">>
    /\ restLog = <<UpdateTrack("B")>>

\* C7 (as claimed): a TrackEndEvent handled with an empty pending sequence and
\* isAutoplay false emits queueEmpty and does not reject.
C7_EmptyQueueEmits ==
    [][(last'.op = "TrackEndEvent" /\ queue = <<>> /\ ~isAutoplay)
        => /\ \E i \in DOMAIN emitted' : emitted'[i][1] = "queueEmpty"
           /\ last'.outcome # "rejected"]_vars

\* C7 (amended): a TrackEndEvent handled with an empty pending sequence and isAutoplay
\* false, whose reason is not replaced and which is either of reason loadFailed/cleanup
\* or handled under loop NONE, emits queueEmpty, issues no REST call and returns.
C7_EmptyQueueEmitsAmended ==
    [][(last'.op = "TrackEndEvent" /\ queue = <<>> /\ ~isAutoplay
        /\ last'.arg # "replaced"
        /\ (last'.arg \in {"loadFailed", "cleanup"} \/ loop = "NONE"))
        => /\ emitted' = <<<<"queueEmpty", NoTrack>>>>
           /\ restLog' = <<>>
           /\ last'.outcome = "resolved"]_vars

\* C7 witness: a track ended (finished) under loop NONE with nothing pending
C7_Witness ==
    /\ last.op = "TrackEndEvent" /\ last.arg = "finished" /\ last.cur = "A"
    /\ loop = "NONE" /\ ~isAutoplay
    /\ queue = <<>>
    /\ Emitted("queueEmpty")
    /\ last.outcome = "resolved"

\* C8: setAutoplay(v) with an explicit boolean sets isAutoplay to v; without argument
\* it inverts isAutoplay.
C8_SetAutoplayExplicit ==
    [][last'.op = "setAutoplay"
        => isAutoplay' = (IF last'.arg = NoArg THEN ~isAutoplay ELSE bool(last'.arg))]_vars

\* the cycle of the specification
CycleNext == [m \in LoopModes |-> CASE m = "NONE" -> "TRACK" [] m = "TRACK" -> "QUEUE"
                                     [] m = "QUEUE" -> "NONE"]

\* C9: setLoop() without argument moves loop one step along NONE -> TRACK -> QUEUE ->
\* NONE, three such steps return to the starting mode, and no other field changes.
C9_SetLoopCycles ==
    [][(last'.op = "setLoop" /\ last'.arg = NoArg)
        => /\ loop' = CycleNext[loop]
           /\ setLoop(setLoop(setLoop(Cur, NoArg), NoArg), NoArg).loop = loop
           /\ setLoop(setLoop(Cur, NoArg), NoArg).loop = CycleNext[CycleNext[loop]]
           /\ UNCHANGED <<state, voiceState, voiceChannelId, isPlaying, isPaused, isAutoplay,
                          queue, currentTrack, previousTrack, registered, tasks>>]_vars

\* C9 witness: a setLoop() without argument wrapped around from QUEUE to NONE while
\* the Player holds a track and a pending call
C9_Witness ==
    /\ last.op = "setLoop" /\ last.arg = NoArg
    /\ loop = "NONE"
    /\ currentTrack # NoTrack
    /\ tasks # EmptyBag

\* C10: a decode request with n strings of which k >= 1 fail locally makes exactly one
\* remote decode call holding those k strings and still returns the n-k locally
\* decoded tracks; with k = 0 it makes no remote call and returns the n local results.
C10_DecodeBatch ==
    (drvPc = "done" /\ drvReq.path = "/decodetracks" /\ drvResult.status = "returned")
    => LET failed == SelectSeq(drvReq.body, LAMBDA e : e \in Malformed)
           local == SelectSeq(drvReq.body, LAMBDA e : e \notin Malformed)
       IN IF failed = <<>>
          THEN /\ drvFetches = <<>>
               /\ drvResult.value = [i \in 1 .. Len(local) |-> decoder(local[i])]
          ELSE /\ drvFetches = <<stringify(failed)>>
               /\ \A i \in 1 .. Len(local) : decoder(local[i]) \in Range(drvResult.value)

\* C11: wsClose(withoutEmit) on a driver that holds a socket tears the connection down
\* for both values of the flag: the socket is closed and has no listeners, the driver
\* holds no socket, and nodeDisconnect is emitted exactly when withoutEmit is false.
C11_WsCloseTearsDown ==
    [][(drvLast'.op = "wsClose" /\ wsClient # NoSocket)
        => /\ wsClient' = NoSocket
           /\ sockets'[wsClient].closed
           /\ ~sockets'[wsClient].listeners
           /\ drvLast'.arg = "true" => nodeEmitted' = <<>>
           /\ drvLast'.arg = "false" => nodeEmitted' = <<"nodeDisconnect">>]_vars

\* C12: when a connect() call that started a handshake settles, state is CONNECTED,
\* whether it resolved (SESSION_READY) or rejected (a missing session id or endpoint,
\* or the timeout of the wait).
C12_ConnectEndsConnected ==
    [][(last'.op = "connectionUpdate" /\ last'.phase = "resume")
        => /\ state' = "CONNECTED"
           /\ last'.outcome \in {"resolved", "rejected"}]_vars

\* C12 witness: a handshake failed and left the Player CONNECTED without voice
C12_Witness ==
    /\ last.op = "connectionUpdate" /\ last.arg = "SESSION_ID_MISSING"
    /\ last.outcome = "rejected"
    /\ state = "CONNECTED"
    /\ voiceState = "CONNECTING"

\* C13: a handshake resolves, with voiceState CONNECTED, exactly when the signal is
\* SESSION_READY; on SESSION_ID_MISSING, SESSION_ENDPOINT_MISSING and on the timeout
\* connect() rejects and voiceState is left as it was.
C13_ReadyIffConnected ==
    [][(last'.op = "connectionUpdate" /\ last'.phase = "resume")
        => IF last'.arg = "SESSION_READY"
           THEN last'.outcome = "resolved" /\ voiceState' = "CONNECTED"
           ELSE last'.outcome = "rejected" /\ voiceState' = voiceState]_vars

\* C13 witness: the wait timed out, connect() rejected and voice is still CONNECTING
C13_Witness ==
    /\ last.op = "connectionUpdate" /\ last.arg = "TIMEOUT"
    /\ last.outcome = "rejected"
    /\ voiceState = "CONNECTING"

\* C14: autoplay() never rejects: whichever step of it settles (the loadTrack call
\* of resolve(), the update-player call of its play() or of a fallback skip()), with
\* any pending sequence, the operation does not end rejected.
C14_AutoplayNeverRejects ==
    [][last'.op \in {"loadTrack", "autoPlay", "autoSkip", "catchSkip"}
        => last'.outcome # "rejected"]_vars

\* C15: handling a TrackStuckEvent or TrackExceptionEvent while a track is playing
\* emits trackError, then recovers through skip() for any pending sequence: the track
\* is no longer marked as playing (isPlaying false, isPaused true), a stop request
\* (update-player with encoded null) is issued, and the handler does not reject.
C15_PlaybackErrorRecovers ==
    [][(last'.op \in {"TrackStuckEvent", "TrackExceptionEvent"}
        /\ currentTrack # NoTrack /\ isPlaying)
        => /\ Len(emitted') = 1 /\ emitted'[1][1] = "trackError"
           /\ ~isPlaying' /\ isPaused'
           /\ restLog' = <<UpdateTrack(NoTrack)>>
           /\ last'.outcome # "rejected"]_vars

\* C16: when no track is enqueued (by the host application or by autoplay) while the
\* Player still holds it, so that the queued tracks are pairwise distinct, currentTrack
\* is never a member of the pending sequence, across play(), skip(), TrackEndEvent
\* under every loop mode and autoplay.
C16_CurrentNotPending ==
    currentTrack # NoTrack => \A i \in DOMAIN queue : queue[i] # currentTrack

\* C17: on a path other than the version probe and the decode paths, request() does
\* not throw because of the HTTP status: it returns undefined for 204 and for every
\* status other than 200, and for 200 the body decoded by content type (res.json()
\* for application/json, which returns for a JSON body, else res.text()); the driver's
\* registration, session identifier and socket are unchanged.
C17_StatusPolicy ==
    [][(reqPc = "fetch" /\ reqPc' = "done" /\ ~startsWith(reqPath, "version")
        /\ reqResponse' # NoResponse)
        => /\ reqResponse'.status # 200 => reqResult' = Returned("undefined")
           /\ (reqResponse'.status = 200 /\ reqResponse'.contentType # "application/json")
                => reqResult' = Returned(reqResponse'.body)
           /\ (reqResponse'.status = 200 /\ reqResponse'.contentType = "application/json")
                => reqResult' = (IF reqResponse'.body = "{}" THEN Returned("object")
                                 ELSE Threw("SyntaxError"))
           /\ UNCHANGED <<isRegistered, userID, resume, sessionId, wsClient, sockets>>]_vars

\* C17 witness: a request of a connected driver was answered 500 and returned undefined
C17_Witness ==
    /\ reqPc = "done" /\ reqPath = "/loadtracks"
    /\ reqResponse.status = 500
    /\ reqResult = Returned("undefined")
    /\ wsClient # NoSocket

\* C18 (as claimed): request() on a path containing /sessions while sessionId is null
\* throws the session-not-ready error and makes no HTTP call; so does updateSessions().
C18_SessionNotReady ==
    [][(drvLast'.op \in {"request", "updateSessions"} /\ drvLast'.outcome # "settled"
        /\ includes(reqPath', "sessions") /\ sessionId = NoSession)
        => /\ reqResult' = Threw("SessionNotReady")
           /\ reqFetches' = <<>>]_vars

\* C18 (amended): on an initialised driver, request() on a path containing /sessions
\* while sessionId is null throws the session-not-ready error and makes no HTTP call,
\* and so does updateSessions(); on a driver that is not initialised it throws the
\* not-registered error instead, also without an HTTP call.
C18_SessionNotReadyAmended ==
    [][(drvLast'.op \in {"request", "updateSessions"} /\ drvLast'.outcome # "settled"
        /\ includes(reqPath', "sessions") /\ sessionId = NoSession)
        => /\ reqResult' = (IF isRegistered THEN Threw("SessionNotReady")
                            ELSE Threw("NotRegistered"))
           /\ reqFetches' = <<>>
           /\ reqPc' = "done"]_vars

\* C18 witness: updateSessions() failed on a connected driver that is not ready yet
C18_Witness ==
    /\ drvLast = DrvStep("updateSessions", "/sessions/S1", "threw")
    /\ reqResult = Threw("SessionNotReady")
    /\ isRegistered /\ wsClient # NoSocket
    /\ sessionId = NoSession

\* the session identifiers the node assigned on the driver's connections so far
Established == {sockets[i].session : i \in DOMAIN sockets} \ {NoSession}

\* C19: a connect() (called, or made by the node's reconnect) opens its WebSocket with
\* a Session-Id header holding the session identifier established on an earlier
\* connection when resume is enabled and there is one; with resume disabled or no
\* session established it sends no Session-Id header.
C19_ResumeHeader ==
    [][Len(sockets') = Len(sockets) + 1
        => LET header == sockets'[Len(sockets')].sessionHeader
           IN /\ (resume /\ Established # {})
                    => (header \in Established /\ header = sessionId)
              /\ (~resume \/ Established = {}) => header = NoHeader]_vars

\* C19 witness: the session S1 of the first connection, which was closed since, is
\* carried by the handshake of the second
C19_Witness ==
    /\ resume
    /\ Len(sockets) = 2
    /\ sockets[1].session = "S1" /\ sockets[1].closed
    /\ sockets[2].sessionHeader = "S1"

replacedAfterPlay(s, settledFirst) ==
    LET p == play(s, "play")
        p1 == IF settledFirst THEN playDone(Without(p, Task("play", NoArg))) ELSE p
    IN trackEnd(p1, "replaced")

\* C21: when play() replaces a playing track A by the next track B and the node then
\* reports TrackEndEvent (replaced) for A, after the event currentTrack is B and
\* previousTrack is A, and the TrackStartEvent for B that follows is reported with B.
C21_ReplacedKeepsPointers ==
    (isPlaying /\ currentTrack \in Tracks /\ queue # <<>> /\ Head(queue) \in Tracks)
    => \A settledFirst \in BOOLEAN :
         LET e == replacedAfterPlay(Cur, settledFirst)
             started == trackStart(e).emitted
         IN /\ e.currentTrack = Head(queue)
            /\ e.previousTrack = currentTrack
            /\ started[Len(started)] = <<"trackStart", Head(queue)>>

\* a step that starts a search for a related track (the loadTrack call of autoplay())
Searches(log) == \E i \in DOMAIN log : log[i].call = "loadTrack"

\* C22: a TrackEndEvent for the current track, handled with loop NONE and isAutoplay
\* true while the pending sequence is non-empty, plays the next pending track and starts no search for a track
\* to enqueue; with loop TRACK or QUEUE autoplay is never invoked.
C22_AutoplayOnlyWhenExhausted ==
    [][(last'.op = "TrackEndEvent" /\ last'.arg \in NormalEnd /\ isAutoplay
        /\ currentTrack \in Tracks /\ isPlaying)
        => /\ (loop = "NONE" /\ queue # <<>>)
                => /\ queue' = Tail(queue)
                   /\ restLog' = <<UpdateTrack(encoded(Head(queue)))>>
           /\ loop \in {"TRACK", "QUEUE"} => ~Searches(restLog')]_vars

\* C23: a TrackEndEvent of reason loadFailed or cleanup bypasses the loop policy under
\* every loop mode: the ended track is not put back, no autoplay search is started, and
\* the head of the pending sequence is played if there is one, else queueEmpty is emitted.
C23_FailedEndBypassesLoop ==
    [][(last'.op = "TrackEndEvent" /\ last'.arg \in {"loadFailed", "cleanup"})
        => /\ ~Searches(restLog')
           /\ IF queue = <<>>
              THEN /\ emitted' = <<<<"queueEmpty", NoTrack>>>>
                   /\ restLog' = <<>>
                   /\ queue' = <<>>
                   /\ tasks' = tasks
              ELSE /\ queue' = Tail(queue)
                   /\ currentTrack' = encoded(Head(queue))
                   /\ restLog' = <<UpdateTrack(encoded(Head(queue)))>>
                   /\ \A i \in DOMAIN emitted' : emitted'[i][1] # "queueEmpty"]_vars

\* C23 witness: A failed to load under loop QUEUE with B pending: B plays, A is not
\* put back
C23_Witness ==
    /\ last.op = "TrackEndEvent" /\ last.arg = "loadFailed" /\ last.cur = "A"
    /\ loop = "QUEUE"
    /\ previousTrack = "A"
    /\ currentTrack = "B"
    /\ queue = <<>>
    /\ restLog = <<UpdateTrack("B")>>

\* C24: destroy() on a Player that has a voice channel, from any prior state (idle, or
\* a track playing with or without pending tracks): when its
\* disconnect is done the pending sequence is empty, voiceState is DISCONNECTED, the
\* voice-leave packet was sent, one destroy-player call is issued after it and isPlaying
\* is false; when that call has settled, playerDestroy is emitted and the Player is
\* removed from the registry, with isPlaying as the disconnect left it.
C24_DestroyCompletes ==
    [][/\ (last'.op = "destroy" /\ voiceChannelId /\ (isPlaying => currentTrack \in Tracks))
            => /\ queue' = <<>>
               /\ voiceState' = "DISCONNECTED"
               /\ packets' = <<LeavePacket>>
               /\ restLog' = <<DestroyPlayer>>
               /\ ~isPlaying'
       /\ (last.op = "destroy" /\ voiceChannelId
           /\ last'.op = "destroyPlayer" /\ last'.arg = "ok")
            => /\ queue' = <<>>
               /\ voiceState' = "DISCONNECTED"
               /\ emitted' = <<<<"playerDestroy", NoTrack>>>>
               /\ restLog' = <<>>
               /\ ~registered'
               /\ isPlaying' = isPlaying]_vars

\* C25: handling a WebSocketClosedEvent re-sends the voice-join packet exactly when the
\* close code is 4006, 4009 or 4015; for every code it emits socketClose and issues a
\* pause request; when that request completes, the Player has isPaused true and
\* isPlaying false.
C25_SocketClosedPauses ==
    [][/\ last'.op = "WebSocketClosedEvent"
            => /\ packets' = (IF last'.arg \in {"4006", "4009", "4015"}
                              THEN <<JoinPacket>> ELSE <<>>)
               /\ emitted' = <<<<"socketClose", currentTrack>>>>
               /\ restLog' = <<UpdatePaused("true")>>
               /\ tasks' = tasks (+) SetToBag({Task("pause", "true")})
       /\ (last'.op = "pause" /\ last'.phase = "resume" /\ last'.arg = "ok"
           /\ tasks' = tasks (-) SetToBag({Task("pause", "true")}))
            => (isPaused' /\ ~isPlaying')]_vars

\* C25 witness: the voice socket closed with 4006 while A was playing: rejoin,
\* socketClose and the pause request
C25_Witness ==
    /\ last.op = "WebSocketClosedEvent" /\ last.arg = "4006"
    /\ currentTrack = "A" /\ isPlaying
    /\ packets = <<JoinPacket>>
    /\ emitted = <<<<"socketClose", "A">>>>
    /\ restLog = <<UpdatePaused("true")>>

\* C26: a connect() called after a connect() that failed (a missing session id or
\* endpoint, or the timeout), with the voice channel still set, sends the voice-join
\* packet again and waits for a new connectionUpdate signal.
C26_ConnectRetries ==
    [][(last.op = "connectionUpdate" /\ last.outcome = "rejected" /\ voiceChannelId
        /\ last'.op = "connect")
        => /\ packets' = <<JoinPacket>>
           /\ tasks' = tasks (+) SetToBag({Task("connectionUpdate", NoArg)})
           /\ last'.outcome = "pending"]_vars

\* C27: at most one WebSocket created by the driver is open with the driver's handlers
\* attached, after any sequence of connect() and wsClose() calls.
C27_OneLiveSocket ==
    Cardinality({i \in DOMAIN sockets : ~sockets[i].closed /\ sockets[i].listeners}) <= 1

====
